---- MODULE Spec2Model ----
(***************************************************************************)
(* Verification model of the trading-fitness numerical core:               *)
(*   - the ITH epoch-detection sweep (core-rust/src/ith.rs),               *)
(*   - the rolling-window feature pipeline (metrics-rust/src/ith_rolling), *)
(*   - the P-Square streaming quantile estimator and the online robust     *)
(*     normalizer (metrics-rust/src/ith_normalize.rs).                     *)
(*                                                                         *)
(* Numbers.  An f64 is modelled as an exact extended rational <<n, d>>:    *)
(*   d > 0 : the finite value n/d in lowest terms,                         *)
(*   <<1,0>> = +inf, <<-1,0>> = -inf, <<0,0>> = NaN.                       *)
(* Arithmetic follows IEEE-754 for the special values (inf - inf = NaN,    *)
(* 0 * inf = NaN, x / 0 = +-inf, every comparison with NaN is false).      *)
(* Rounding of finite results and the sign of zero are not modelled.       *)
(***************************************************************************)
EXTENDS Integers, Sequences, FiniteSets, TLC

\* One record per component: a running call of excess_gain_excess_loss, a
\* running call of compute_rolling_ith, a PSquareQuantile object and an
\* OnlineRobustNormalizer object, and a call of one of the stateless functions.
VARIABLES sweep, rolling, psquare, normalizer, call

vars == <<sweep, rolling, psquare, normalizer, call>>

\* ------------------------------------------------------------------------
\* f64 values and arithmetic
\* ------------------------------------------------------------------------

Abs(a) == IF a < 0 THEN -a ELSE a

Sign(a) == IF a < 0 THEN -1 ELSE IF a > 0 THEN 1 ELSE 0

RECURSIVE Gcd(_, _)
Gcd(a, b) == IF b = 0 THEN a ELSE Gcd(b, a % b)

\* The value n/d brought to its canonical form.
Norm(n, d) ==
    IF d = 0 THEN <<Sign(n), 0>>
    ELSE LET g == Gcd(Abs(n), Abs(d))
             s == Sign(d)
         IN  <<(s * n) \div g, (s * d) \div g>>

Rat(n, d) == Norm(n, d)

NaN == <<0, 0>>

PosInf == <<1, 0>>

NegInf == <<-1, 0>>

Zero == <<0, 1>>

One == <<1, 1>>

Half == <<1, 2>>

IsNaN(x) == x = NaN

IsFinite(x) == x[2] # 0

IsInf(x) == x[2] = 0 /\ x[1] # 0

FNeg(x) == <<-x[1], x[2]>>

\* Finite operands are brought to their least common denominator.
AddFinite(x, y, g) ==
    Norm(x[1] * (y[2] \div g) + y[1] * (x[2] \div g), (x[2] \div g) * y[2])

FAdd(x, y) ==
    IF IsInf(x) /\ IsInf(y) THEN (IF x = y THEN x ELSE NaN)
    ELSE IF IsFinite(x) /\ IsFinite(y) THEN AddFinite(x, y, Gcd(x[2], y[2]))
    ELSE Norm(x[1] * y[2] + y[1] * x[2], x[2] * y[2])

FSub(x, y) == FAdd(x, FNeg(y))

FMul(x, y) == Norm(x[1] * y[1], x[2] * y[2])

FDiv(x, y) ==
    IF IsInf(x) /\ IsFinite(y)
    THEN (IF y[1] < 0 THEN FNeg(x) ELSE x)
    ELSE Norm(x[1] * y[2] * (IF y[1] < 0 THEN -1 ELSE 1), x[2] * Abs(y[1]))

\* -1 for -inf, 0 for a finite value, 1 for +inf (NaN excluded by the callers).
Level(x) == IF x[2] # 0 THEN 0 ELSE x[1]

\* x < y for finite operands, over their least common denominator.
LtFinite(x, y, g) == x[1] * (y[2] \div g) < y[1] * (x[2] \div g)

FLt(x, y) ==
    /\ ~IsNaN(x)
    /\ ~IsNaN(y)
    /\ \/ Level(x) < Level(y)
       \/ IsFinite(x) /\ IsFinite(y) /\ LtFinite(x, y, Gcd(x[2], y[2]))

FGt(x, y) == FLt(y, x)

FEq(x, y) == ~IsNaN(x) /\ ~IsNaN(y) /\ x = y

FLe(x, y) == FLt(x, y) \/ FEq(x, y)

FGe(x, y) == FLe(y, x)

FAbs(x) == <<Abs(x[1]), x[2]>>

\* f64::min / f64::max: a NaN operand is ignored.
FMin(x, y) == IF IsNaN(x) THEN y ELSE IF IsNaN(y) THEN x ELSE IF FLt(y, x) THEN y ELSE x

FMax(x, y) == IF IsNaN(x) THEN y ELSE IF IsNaN(y) THEN x ELSE IF FGt(y, x) THEN y ELSE x

\* f64::clamp: NaN stays NaN.
FClamp(x, lo, hi) ==
    IF IsNaN(x) THEN NaN ELSE IF FLt(x, lo) THEN lo ELSE IF FGt(x, hi) THEN hi ELSE x

\* usize as f64
FromInt(k) == <<k, 1>>

\* Sum of a sequence of f64 (Iterator::sum, left to right from 0.0).
RECURSIVE FSum(_)
FSum(xs) == IF xs = <<>> THEN Zero ELSE FAdd(FSum(SubSeq(xs, 1, Len(xs) - 1)), xs[Len(xs)])

\* Largest r in lo..hi with r * r <= m (lo * lo <= m assumed).
RECURSIVE ISqrtIn(_, _, _)
ISqrtIn(m, lo, hi) ==
    IF lo = hi THEN lo
    ELSE LET mid == (lo + hi + 1) \div 2
         IN  IF mid * mid <= m THEN ISqrtIn(m, mid, hi) ELSE ISqrtIn(m, lo, mid - 1)

ISqrt(m) == ISqrtIn(m, 0, IF m < 46340 THEN m ELSE 46340)

\* Resolution of an inexact square root: results are rounded down to a
\* multiple of 1/(d * SqrtScale), as f64::sqrt rounds to the nearest float.
SqrtScale == 16 * 16

\* f64::sqrt: exact where the root is rational, rounded otherwise.
FSqrt(x) ==
    IF IsNaN(x) \/ x[1] < 0 THEN NaN
    ELSE IF x = PosInf THEN PosInf
    ELSE LET m == x[1] * x[2]
             r == ISqrt(m)
         IN  IF r * r = m THEN Norm(r, x[2])
             ELSE Norm(ISqrt(m * SqrtScale * SqrtScale), x[2] * SqrtScale)

\* ------------------------------------------------------------------------
\* ITH epoch-detection sweep (core-rust/src/ith.rs)
\* Rust index k of a vector is position k + 1 of the TLA+ sequence.
\* ------------------------------------------------------------------------

\* Number of TRUE entries of a sequence of booleans.
CountTrue(flags) == Cardinality({k \in 1..Len(flags) : flags[k]})

\* epoch_indices: 0 followed by the Rust indices of the flagged bars, ascending.
RECURSIVE EpochIndicesUpTo(_, _)
EpochIndicesUpTo(flags, k) ==
    IF k = 0 THEN <<0>>
    ELSE IF flags[k] THEN Append(EpochIndicesUpTo(flags, k - 1), k - 1)
    ELSE EpochIndicesUpTo(flags, k - 1)

\* EpochIndices without the virtual first marker at index 0.
EpochIndicesNoOrigin(flags) == Tail(EpochIndicesUpTo(flags, Len(flags)))

EpochIndices(flags) == EpochIndicesUpTo(flags, Len(flags))

\* intervals: the gaps between consecutive epoch indices (windows(2)).
Intervals(idx) == [k \in 1..(Len(idx) - 1) |-> FromInt(idx[k + 1] - idx[k])]

calculate_ith_intervals_cv(ith_epochs) ==
    LET epoch_indices == EpochIndices(ith_epochs)
        intervals == Intervals(epoch_indices)
        n == FromInt(Len(intervals))
        mean == FDiv(FSum(intervals), n)
        sq == [k \in 1..Len(intervals) |->
                  FMul(FSub(intervals[k], mean), FSub(intervals[k], mean))]
        variance == FDiv(FSum(sq), n)
    IN  IF Len(epoch_indices) < 2 THEN NaN
        ELSE IF Len(intervals) = 0 THEN NaN
        ELSE IF FEq(mean, Zero) THEN NaN
        ELSE FDiv(FSqrt(variance), mean)

\* SweepStart with the vectors allocated one entry short.
SweepStartShort(nav) ==
    [excess_gains    |-> [k \in 1..(Len(nav) - 1) |-> Zero],
     excess_losses   |-> [k \in 1..(Len(nav) - 1) |-> Zero],
     ith_epochs      |-> [k \in 1..(Len(nav) - 1) |-> FALSE],
     resets          |-> [k \in 1..(Len(nav) - 1) |-> FALSE],
     excess_gain     |-> Zero,
     excess_loss     |-> Zero,
     endorsing_crest |-> nav[1],
     endorsing_nadir |-> nav[1],
     candidate_crest |-> nav[1],
     candidate_nadir |-> nav[1]]

\* SweepStart with the four scalars anchored at the last bar of the series.
SweepStartAtLast(nav) ==
    [excess_gains    |-> [k \in 1..Len(nav) |-> Zero],
     excess_losses   |-> [k \in 1..Len(nav) |-> Zero],
     ith_epochs      |-> [k \in 1..Len(nav) |-> FALSE],
     resets          |-> [k \in 1..Len(nav) |-> FALSE],
     excess_gain     |-> Zero,
     excess_loss     |-> Zero,
     endorsing_crest |-> nav[Len(nav)],
     endorsing_nadir |-> nav[Len(nav)],
     candidate_crest |-> nav[Len(nav)],
     candidate_nadir |-> nav[Len(nav)]]

\* The sweep's locals after lines 19-28: vectors of n neutral entries and the
\* four crest/nadir scalars anchored at nav[0].  resets is a history of
\* reset_condition per bar (not program state).
SweepStart(nav) ==
    [excess_gains    |-> [k \in 1..Len(nav) |-> Zero],
     excess_losses   |-> [k \in 1..Len(nav) |-> Zero],
     ith_epochs      |-> [k \in 1..Len(nav) |-> FALSE],
     resets          |-> [k \in 1..Len(nav) |-> FALSE],
     excess_gain     |-> Zero,
     excess_loss     |-> Zero,
     endorsing_crest |-> nav[1],
     endorsing_nadir |-> nav[1],
     candidate_crest |-> nav[1],
     candidate_nadir |-> nav[1]]

\* IthEpochCondition with the hurdle compared non-strictly.
IthEpochConditionNonStrict(gain, loss, hurdle) == FGt(gain, loss) /\ FGe(gain, hurdle)

\* IthEpochCondition without the hurdle test.
IthEpochConditionNoHurdle(gain, loss, hurdle) == FGt(gain, loss)

\* IthEpochCondition with the hurdle comparison turned around.
IthEpochConditionReversed(gain, loss, hurdle) == FGt(gain, loss) /\ FLt(gain, hurdle)

\* The epoch flag of a bar from its recorded values (line 68).
IthEpochCondition(gain, loss, hurdle) == FGt(gain, loss) /\ FGt(gain, hurdle)

\* ResetCondition without the hurdle test.
ResetConditionNoHurdle(excess_gain, excess_loss, hurdle, candidate_crest, endorsing_crest) ==
    /\ FGt(excess_gain, FAbs(excess_loss))
    /\ FGe(candidate_crest, endorsing_crest)

\* reset_condition (lines 48-50).
ResetCondition(excess_gain, excess_loss, hurdle, candidate_crest, endorsing_crest) ==
    /\ FGt(excess_gain, FAbs(excess_loss))
    /\ FGt(excess_gain, hurdle)
    /\ FGe(candidate_crest, endorsing_crest)

\* NewExcessGain with the formula of the loss branch.
NewExcessGainAsLoss(next_equity, endorsing_crest) ==
    IF endorsing_crest # Zero
    THEN FSub(One, FDiv(next_equity, endorsing_crest))
    ELSE Zero

\* NewExcessGain without the guard for a zero endorsed crest.
NewExcessGainUnguarded(next_equity, endorsing_crest) ==
    FSub(FDiv(next_equity, endorsing_crest), One)

\* The excess gain booked at a new candidate crest (lines 35-39).
NewExcessGain(next_equity, endorsing_crest) ==
    IF endorsing_crest # Zero
    THEN FSub(FDiv(next_equity, endorsing_crest), One)
    ELSE Zero

\* ClearedOnReset without the clear.
KeptOnReset(reset_condition, running) == running

\* A running accumulator after the bar is recorded: back to 0.0 when the
\* reset fired (lines 63-66).
ClearedOnReset(reset_condition, running) == IF reset_condition THEN Zero ELSE running

\* One iteration of the loop, for Rust index i in 1..n-1 (lines 31-69).
SweepStep(s, nav, hurdle, i) ==
    LET equity == nav[i]
        next_equity == nav[i + 1]
        up == FGt(next_equity, s.candidate_crest)
        gain1 == IF up
                 THEN NewExcessGain(next_equity, s.endorsing_crest)
                 ELSE s.excess_gain
        crest1 == IF up THEN next_equity ELSE s.candidate_crest
        down == FLt(next_equity, s.candidate_nadir)
        loss1 == IF down
                 THEN FSub(One, FDiv(next_equity, s.endorsing_crest))
                 ELSE s.excess_loss
        nadir1 == IF down THEN next_equity ELSE s.candidate_nadir
        reset_condition ==
            ResetCondition(gain1, loss1, hurdle, crest1, s.endorsing_crest)
    IN  [excess_gains    |-> [s.excess_gains EXCEPT ![i + 1] = gain1],
         excess_losses   |-> [s.excess_losses EXCEPT ![i + 1] = loss1],
         ith_epochs      |-> [s.ith_epochs EXCEPT
                                 ![i + 1] = IthEpochCondition(gain1, loss1, hurdle)],
         resets          |-> [s.resets EXCEPT ![i + 1] = reset_condition],
         excess_gain     |-> ClearedOnReset(reset_condition, gain1),
         excess_loss     |-> ClearedOnReset(reset_condition, loss1),
         endorsing_crest |-> IF reset_condition THEN crest1 ELSE s.endorsing_crest,
         endorsing_nadir |-> IF reset_condition THEN equity
                             ELSE FMin(s.endorsing_nadir, equity),
         candidate_crest |-> crest1,
         candidate_nadir |-> IF reset_condition THEN equity ELSE nadir1]

\* ExcessGainLossResult built from the vectors (lines 72-81).
SweepResult(s) ==
    [excess_gains      |-> s.excess_gains,
     excess_losses     |-> s.excess_losses,
     num_of_ith_epochs |-> CountTrue(s.ith_epochs),
     ith_epochs        |-> s.ith_epochs,
     ith_intervals_cv  |-> calculate_ith_intervals_cv(s.ith_epochs)]

\* The result for an empty series (lines 9-17).
EmptyResult ==
    [excess_gains      |-> <<>>,
     excess_losses     |-> <<>>,
     num_of_ith_epochs |-> 0,
     ith_epochs        |-> <<>>,
     ith_intervals_cv  |-> NaN]

RECURSIVE SweepLoop(_, _, _, _)
SweepLoop(s, nav, hurdle, i) ==
    IF i >= Len(nav) THEN s ELSE SweepLoop(SweepStep(s, nav, hurdle, i), nav, hurdle, i + 1)

\* The whole function, as its callers see it.
excess_gain_excess_loss(nav, hurdle) ==
    IF Len(nav) = 0 THEN EmptyResult
    ELSE SweepResult(SweepLoop(SweepStart(nav), nav, hurdle, 1))

\* ------------------------------------------------------------------------
\* Bounding utilities (metrics-rust/src/ith_normalize.rs)
\* ------------------------------------------------------------------------

\* f64::EPSILON is 2^-52.  The model's integers are 32 bits wide, so the model
\* uses 2^-16: like 2^-52 it is below every positive quantity the model's
\* inputs can produce, which is all the code uses it for.
EPSILON == <<1, 65536>>

\* f64::exp.  exp is transcendental; the model keeps what the callers rely
\* on: exp(0) = 1, exp(-t) = 1/exp(t), strictly increasing, positive, and the
\* f64 saturation to +inf above 709 and to 0 below -745.  Between the two it
\* is the rational function 1 + t (t >= 0), 1 / (1 - t) (t < 0).
FExp(t) ==
    IF IsNaN(t) THEN NaN
    ELSE IF FGt(t, FromInt(709)) THEN PosInf
    ELSE IF FLt(t, FromInt(-745)) THEN Zero
    ELSE IF FGe(t, Zero) THEN FAdd(One, t)
    ELSE FDiv(One, FSub(One, t))

\* f64::tanh, from the same exponential: (e^2y - 1) / (e^2y + 1), which is
\* y / (1 + |y|) here; f64 rounds tanh to exactly +-1 beyond |y| = 20.
FTanh(y) ==
    IF IsNaN(y) THEN NaN
    ELSE IF FGt(y, FromInt(20)) THEN One
    ELSE IF FLt(y, FromInt(-20)) THEN FNeg(One)
    ELSE FDiv(y, FAdd(One, FAbs(y)))

logistic_sigmoid(x, center, scale) ==
    FDiv(One, FAdd(One, FExp(FMul(FNeg(FSub(x, center)), scale))))

\* normalize_epochs without the guard for lookback == 0.
normalize_epochs_unguarded(epochs, lookback) ==
    logistic_sigmoid(FDiv(FromInt(epochs), FromInt(lookback)), Half, FromInt(10))

normalize_epochs(epochs, lookback) ==
    IF lookback = 0 THEN Half
    ELSE logistic_sigmoid(FDiv(FromInt(epochs), FromInt(lookback)), Half, FromInt(10))

normalize_excess(value) == FTanh(FMul(FAbs(value), FromInt(5)))

\* normalize_cv without the NaN convention.
normalize_cv_raw(cv) == logistic_sigmoid(cv, Half, FromInt(4))

normalize_cv(cv) ==
    LET cv_effective == IF IsNaN(cv) THEN Zero ELSE cv
    IN  logistic_sigmoid(cv_effective, Half, FromInt(4))

normalize_drawdown(drawdown) == FClamp(drawdown, Zero, One)

normalize_runup(runup) == FClamp(runup, Zero, One)

\* ------------------------------------------------------------------------
\* Rolling-window pipeline (metrics-rust/src/ith_rolling.rs)
\* ------------------------------------------------------------------------

\* The loop of compute_max_drawdown over window[1..]: acc = <<running_max,
\* max_drawdown>> (lines 87-97).
RECURSIVE MaxDrawdownLoop(_, _, _)
MaxDrawdownLoop(window, k, acc) ==
    IF k > Len(window) THEN acc
    ELSE LET val == window[k]
             running_max == IF FGt(val, acc[1]) THEN val ELSE acc[1]
             drawdown == FSub(One, FDiv(val, running_max))
             max_drawdown ==
                 IF FGt(running_max, Zero) /\ IsFinite(val) /\ FGt(drawdown, acc[2])
                 THEN drawdown ELSE acc[2]
         IN  MaxDrawdownLoop(window, k + 1, <<running_max, max_drawdown>>)

compute_max_drawdown(window) ==
    IF Len(window) < 2 THEN EPSILON
    ELSE FMax(MaxDrawdownLoop(window, 2, <<window[1], Zero>>)[2], EPSILON)

\* The loop of compute_max_runup: acc = <<running_min, max_runup>> (lines 126-138).
RECURSIVE MaxRunupLoop(_, _, _)
MaxRunupLoop(window, k, acc) ==
    IF k > Len(window) THEN acc
    ELSE LET val == window[k]
             running_min == IF FLt(val, acc[1]) THEN val ELSE acc[1]
             runup == FSub(One, FDiv(running_min, val))
             max_runup ==
                 IF /\ FGt(val, Zero)
                    /\ FGt(running_min, Zero)
                    /\ IsFinite(val)
                    /\ FGt(runup, acc[2])
                 THEN runup ELSE acc[2]
         IN  MaxRunupLoop(window, k + 1, <<running_min, max_runup>>)

compute_max_runup(window) ==
    IF Len(window) < 2 THEN EPSILON
    ELSE FMax(MaxRunupLoop(window, 2, <<window[1], Zero>>)[2], EPSILON)

\* crate::ith::bull_ith is not among the sources.  From the specification
\* (4.4, 4.5): the bull sweep is the epoch-detection sweep run on the window
\* with the given threshold; its max_drawdown is the largest decline
\* 1 - value / running peak of the window.
RECURSIVE WindowMaxDrawdown(_, _, _, _)
WindowMaxDrawdown(window, k, peak, worst) ==
    IF k > Len(window) THEN worst
    ELSE LET p1 == IF FGt(window[k], peak) THEN window[k] ELSE peak
             dd == FSub(One, FDiv(window[k], p1))
         IN  WindowMaxDrawdown(window, k + 1, p1, IF FGt(dd, worst) THEN dd ELSE worst)

BullResult(r, window) ==
    [excess_gains  |-> r.excess_gains,
     num_of_epochs |-> r.num_of_ith_epochs,
     intervals_cv  |-> r.ith_intervals_cv,
     max_drawdown  |-> IF Len(window) = 0 THEN Zero
                       ELSE WindowMaxDrawdown(window, 1, window[1], Zero)]

bull_ith(window, tmaeg) == BullResult(excess_gain_excess_loss(window, tmaeg), window)

\* crate::ith::bear_ith is not among the sources either.  From the
\* specification (4.4, 9): the identical state machine run against the
\* reciprocal of the series, the transform under which a drawdown of the
\* mirrored series is the runup 1 - trough / value of the original.
Reciprocal(window) == [k \in 1..Len(window) |-> FDiv(One, window[k])]

BearResult(m) ==
    [excess_gains  |-> m.excess_gains,
     num_of_epochs |-> m.num_of_epochs,
     intervals_cv  |-> m.intervals_cv,
     max_runup     |-> m.max_drawdown]

bear_ith(window, tmaeg) == BearResult(bull_ith(Reciprocal(window), tmaeg))

\* NewFeatures with the vectors filled with 0.0.
NewFeaturesZeroed(len) ==
    [f \in {"bull_epoch_density", "bear_epoch_density", "bull_excess_gain",
            "bear_excess_gain", "bull_cv", "bear_cv", "max_drawdown", "max_runup"} |->
        [k \in 1..len |-> Zero]]

\* RollingIthFeatures::new(len): eight vectors of NaN.
FeatureNames ==
    {"bull_epoch_density", "bear_epoch_density", "bull_excess_gain", "bear_excess_gain",
     "bull_cv", "bear_cv", "max_drawdown", "max_runup"}

NewFeatures(len) == [f \in FeatureNames |-> [k \in 1..len |-> NaN]]

\* The test that skips a window (line 198).
InvalidFirst(first_val) == FLe(first_val, Zero) \/ ~IsFinite(first_val)

\* The eight values stored from the two results (lines 218-231).
StoredFeatures(bull_result, bear_result, lookback) ==
    [bull_epoch_density |-> normalize_epochs(bull_result.num_of_epochs, lookback),
     bear_epoch_density |-> normalize_epochs(bear_result.num_of_epochs, lookback),
     bull_excess_gain   |-> normalize_excess(FSum(bull_result.excess_gains)),
     bear_excess_gain   |-> normalize_excess(FSum(bear_result.excess_gains)),
     bull_cv            |-> normalize_cv(bull_result.intervals_cv),
     bear_cv            |-> normalize_cv(bear_result.intervals_cv),
     max_drawdown       |-> normalize_drawdown(bull_result.max_drawdown),
     max_runup          |-> normalize_runup(bear_result.max_runup)]

\* The two sweeps of a renormalized window, each with its own threshold
\* (lines 208-215).
NormalizedWindowFeatures(normalized_window, lookback) ==
    StoredFeatures(bull_ith(normalized_window, compute_max_drawdown(normalized_window)),
                   bear_ith(normalized_window, compute_max_runup(normalized_window)),
                   lookback)

\* NormalizedWindow divided by the first value of the series instead of
\* the first value of the window.
NormalizedWindowBySeriesStart(nav, lookback, i) ==
    LET window_start == i + 1 - lookback
    IN  [k \in 1..lookback |-> FDiv(nav[window_start + k], nav[1])]

\* The window ending at Rust index i, renormalized to start at 1.0 (lines 193-203).
NormalizedWindow(nav, lookback, i) ==
    LET window_start == i + 1 - lookback
        first_val == nav[window_start + 1]
    IN  [k \in 1..lookback |-> FDiv(nav[window_start + k], first_val)]

\* The eight values stored for the window ending at Rust index i (lines 193-231).
WindowFeatures(nav, lookback, i) ==
    NormalizedWindowFeatures(NormalizedWindow(nav, lookback, i), lookback)

\* LookbackAccepted with the upper assert off by one.
LookbackAcceptedStrict(nav, lookback) == lookback > 0 /\ lookback < Len(nav)

\* The arguments compute_rolling_ith accepts (the two assert! of lines 182-186).
LookbackAccepted(nav, lookback) == lookback > 0 /\ lookback <= Len(nav)

\* First Rust index of the loop (line 192).
FirstWindowEnd(lookback) == lookback - 1

\* SkipWindow leaving the loop instead of going on to the next window.
SkipWindowAndStop(i, n) == n

\* The loop index after the continue of an invalid window (lines 198-201).
SkipWindow(i, n) == i + 1

\* The eight stores features.<name>[i] = ... (lines 218-231).
StoreWindow(features, i, w) ==
    [f \in FeatureNames |-> [features[f] EXCEPT ![i + 1] = w[f]]]

\* The loop of compute_rolling_ith from Rust index i on (lines 192-232).
RECURSIVE RollingLoop(_, _, _, _)
RollingLoop(nav, lookback, i, features) ==
    IF i >= Len(nav) THEN features
    ELSE IF InvalidFirst(nav[i + 2 - lookback])
         THEN RollingLoop(nav, lookback, SkipWindow(i, Len(nav)), features)
         ELSE RollingLoop(nav, lookback, i + 1,
                          StoreWindow(features, i, WindowFeatures(nav, lookback, i)))

\* compute_rolling_ith for arguments that pass its asserts (lines 181-235).
compute_rolling_ith(nav, lookback) ==
    RollingLoop(nav, lookback, FirstWindowEnd(lookback), NewFeatures(Len(nav)))

\* ------------------------------------------------------------------------
\* P-Square streaming quantile estimator (metrics-rust/src/ith_normalize.rs)
\* The arrays q, n, n_prime, dn are sequences of five f64; Rust index k is
\* position k + 1, written At(a, k).
\* ------------------------------------------------------------------------

At(a, k) == a[k + 1]

\* xs with v inserted after the last element not greater than v: the step of
\* a stable sort under partial_cmp (the values are finite, so it is total).
RECURSIVE InsertSorted(_, _)
InsertSorted(xs, v) ==
    IF xs = <<>> THEN <<v>>
    ELSE IF FLt(v, xs[Len(xs)])
         THEN Append(InsertSorted(SubSeq(xs, 1, Len(xs) - 1), v), xs[Len(xs)])
         ELSE Append(xs, v)

\* slice::sort_by(|a, b| a.partial_cmp(b).unwrap_or(Equal)).
RECURSIVE SortF64(_)
SortF64(xs) ==
    IF xs = <<>> THEN <<>>
    ELSE InsertSorted(SortF64(SubSeq(xs, 1, Len(xs) - 1)), xs[Len(xs)])

\* RoundToUsize without the call of round: the cast truncates.
TruncToUsize(x) == x[1] \div x[2]

\* f64::round of a non-negative value (half away from zero), as usize.
RoundToUsize(x) == (2 * x[1] + x[2]) \div (2 * x[2])

Two == <<2, 1>>

\* PSquareQuantile::new(p) (lines 286-296).
NewEstimator(p0) ==
    LET p == FClamp(p0, Zero, One)
    IN  [q       |-> <<Zero, Zero, Zero, Zero, Zero>>,
         n       |-> <<FromInt(1), FromInt(2), FromInt(3), FromInt(4), FromInt(5)>>,
         n_prime |-> <<One,
                       FAdd(One, FMul(Two, p)),
                       FAdd(One, FMul(FromInt(4), p)),
                       FAdd(FromInt(3), FMul(Two, p)),
                       FromInt(5)>>,
         dn      |-> <<Zero, FDiv(p, Two), p, FDiv(FAdd(One, p), Two), One>>,
         count   |-> 0,
         p       |-> p]

\* parabolic(i, d) (lines 376-385).
parabolic(e, i, d) ==
    LET n_i == At(e.n, i)
        n_im1 == At(e.n, i - 1)
        n_ip1 == At(e.n, i + 1)
    IN  FAdd(At(e.q, i),
             FMul(FDiv(d, FSub(n_ip1, n_im1)),
                  FAdd(FDiv(FMul(FAdd(FSub(n_i, n_im1), d),
                                 FSub(At(e.q, i + 1), At(e.q, i))),
                            FSub(n_ip1, n_i)),
                       FDiv(FMul(FSub(FSub(n_ip1, n_i), d),
                                 FSub(At(e.q, i), At(e.q, i - 1))),
                            FSub(n_i, n_im1)))))

\* linear(i, d) (lines 387-390).
linear(e, i, d) ==
    LET j == IF FGt(d, Zero) THEN i + 1 ELSE i - 1
    IN  FAdd(At(e.q, i),
             FDiv(FMul(d, FSub(At(e.q, j), At(e.q, i))),
                  FSub(At(e.n, j), At(e.n, i))))

\* The cell k of the new value, after the extreme markers were extended
\* (lines 328-340): the result is <<k, q>>.
RECURSIVE CellScan(_, _, _)
CellScan(q, x, k) == IF k < 4 /\ FGe(x, At(q, k)) THEN CellScan(q, x, k + 1) ELSE k

FindCell(q, x) ==
    IF FLt(x, At(q, 0)) THEN <<0, [q EXCEPT ![1] = x]>>
    ELSE IF FGe(x, At(q, 4)) THEN <<4, [q EXCEPT ![5] = x]>>
    ELSE <<CellScan(q, x, 1) - 1, q>>

\* The positions after the increment of the markers above cell k
\* (lines 343-345).
IncrementPositions(n, k) ==
    [m \in 1..5 |-> IF m - 1 >= k + 1 THEN FAdd(n[m], One) ELSE n[m]]

\* MustAdjust without the tests on the neighbouring positions.
MustAdjustAnyGap(e, i, d) == FGe(d, One) \/ FLe(d, FNeg(One))

\* The test that lets marker i move (lines 354-357), d = n_prime[i] - n[i].
MustAdjust(e, i, d) ==
    \/ FGe(d, One) /\ FGt(FSub(At(e.n, i + 1), At(e.n, i)), One)
    \/ FLe(d, FNeg(One)) /\ FLt(FSub(At(e.n, i - 1), At(e.n, i)), FNeg(One))

\* NewHeight without the monotonicity test on the parabolic estimate.
NewHeightUnchecked(e, i, d_sign, q_new) == q_new

\* The new height of a marker that moves by d_sign (lines 361-369).
NewHeight(e, i, d_sign, q_new) ==
    IF FLt(At(e.q, i - 1), q_new) /\ FLt(q_new, At(e.q, i + 1))
    THEN q_new
    ELSE linear(e, i, d_sign)

\* One iteration of the loop over the interior markers (lines 353-373).
AdjustMarker(e, i) ==
    LET d == FSub(At(e.n_prime, i), At(e.n, i))
        d_sign == IF FGt(d, Zero) THEN One ELSE FNeg(One)
    IN  IF MustAdjust(e, i, d)
        THEN [e EXCEPT !.q[i + 1] = NewHeight(e, i, d_sign, parabolic(e, i, d_sign)),
                       !.n[i + 1] = FAdd(At(e.n, i), d_sign)]
        ELSE e

\* The steady-state part of update (lines 327-373), count already incremented.
UpdateSteady(e, cell) ==
    LET k == cell[1]
        e1 == [e EXCEPT
                  !.q = cell[2],
                  !.n = IncrementPositions(e.n, k),
                  !.n_prime = [m \in 1..5 |-> FAdd(e.n_prime[m], e.dn[m])]]
    IN  AdjustMarker(AdjustMarker(AdjustMarker(e1, 1), 2), 3)

\* The warm-up part of update (lines 317-325), count already incremented.
UpdateWarmup(e, x) ==
    LET stored == [e.q EXCEPT ![e.count] = x]
    IN  [e EXCEPT !.q = IF e.count = 5 THEN SortF64(stored) ELSE stored]

\* InWarmup with the threshold one too low: the fifth value is not buffered.
InWarmupShort(c) == c < 5

\* Whether an update that brings the count to c only buffers its value (line 317).
InWarmup(c) == c <= 5

\* PSquareQuantile::update(x) (lines 314-374).
Update(e, x) ==
    LET e0 == [e EXCEPT !.count = e.count + 1]
    IN  IF InWarmup(e0.count) THEN UpdateWarmup(e0, x)
        ELSE UpdateSteady(e0, FindCell(e0.q, x))

\* Quantile without the warm-up branch.
QuantileNoWarmup(e) == At(e.q, 2)

\* PSquareQuantile::quantile() (lines 393-405).
Quantile(e) ==
    IF e.count < 5
    THEN IF e.count = 0 THEN NaN
         ELSE LET sorted == SortF64(SubSeq(e.q, 1, e.count))
                  idx == RoundToUsize(FMul(FromInt(e.count - 1), e.p))
              IN  At(sorted, IF idx < e.count - 1 THEN idx ELSE e.count - 1)
    ELSE At(e.q, 2)

\* ------------------------------------------------------------------------
\* Online robust normalizer (metrics-rust/src/ith_normalize.rs)
\* ------------------------------------------------------------------------

\* OnlineRobustNormalizer::new() (lines 426-432).
NewNormalizer ==
    [q1     |-> NewEstimator(Rat(1, 4)),
     median |-> NewEstimator(Half),
     q3     |-> NewEstimator(Rat(3, 4))]

\* UpdateAll that forgets the third estimator.
UpdateAllButQ3(o, x) ==
    [q1 |-> Update(o.q1, x), median |-> Update(o.median, x), q3 |-> o.q3]

\* The three updates that open normalize (lines 437-439).
UpdateAll(o, x) ==
    [q1 |-> Update(o.q1, x), median |-> Update(o.median, x), q3 |-> Update(o.q3, x)]

\* OnlineRobustNormalizer::median() (lines 457-459).
NormalizerMedianValue(o) == Quantile(o.median)

\* OnlineRobustNormalizer::iqr() (lines 462-464).
NormalizerIqrValue(o) == FSub(Quantile(o.q3), Quantile(o.q1))

\* OnlineRobustNormalizer::count() (lines 467-469).
NormalizerCountValue(o) == o.median.count

\* NotEnoughData with the threshold one too high.
NotEnoughDataLate(o) == o.median.count <= 5

\* The warm-up test of normalize (line 441).
NotEnoughData(o) == o.median.count < 5

\* The bounded robust z-score (lines 445-453).
RobustScore(x, median, q1, q3) ==
    LET iqr == FMax(FSub(q3, q1), EPSILON)
        robust_std == FDiv(iqr, Rat(135, 100))
        z == FDiv(FSub(x, median), robust_std)
    IN  logistic_sigmoid(z, Zero, One)

\* What normalize returns once the estimators o have been updated with x
\* (lines 441-453).
NormalizeReturn(o, x) ==
    IF NotEnoughData(o) THEN Half
    ELSE RobustScore(x, Quantile(o.median), Quantile(o.q1), Quantile(o.q3))

\* ------------------------------------------------------------------------
\* Rank transforms (metrics-rust/src/ith_normalize.rs)
\* Indices are Rust's, from 0; the inputs of the model hold no NaN, so that
\* partial_cmp is a total preorder and the stable sort has one result.
\* ------------------------------------------------------------------------

\* Insert index idx into the sorted index list: behind every entry that does
\* not compare Greater (the sort is stable and idx is the largest index so far).
RECURSIVE InsertIndex(_, _, _)
InsertIndex(sorted, idx, values) ==
    IF sorted = <<>> THEN <<idx>>
    ELSE IF FLt(At(values, idx), At(values, sorted[Len(sorted)]))
         THEN Append(InsertIndex(SubSeq(sorted, 1, Len(sorted) - 1), idx, values),
                     sorted[Len(sorted)])
         ELSE Append(sorted, idx)

\* indices.sort_by(partial_cmp) over (0..n) (lines 198-203).
RECURSIVE SortedIndicesUpTo(_, _)
SortedIndicesUpTo(values, k) ==
    IF k = 0 THEN <<>>
    ELSE InsertIndex(SortedIndicesUpTo(values, k - 1), k - 1, values)

SortedIndices(values) == SortedIndicesUpTo(values, Len(values))

\* TiedWith by exact equality.
TiedWithExact(a, b) == FEq(a, b)

\* The tie test of the inner while loop (line 211).
TiedWith(a, b) == FLt(FAbs(FSub(a, b)), EPSILON)

\* The inner while loop: the last j of the tie group that starts at i
\* (lines 209-213).
RECURSIVE TieEnd(_, _, _, _)
TieEnd(values, indices, i, j) ==
    IF j < Len(values) - 1
       /\ TiedWith(At(values, At(indices, j + 1)), At(values, At(indices, i)))
    THEN TieEnd(values, indices, i, j + 1)
    ELSE j

\* The outer while loop from position i on (lines 207-221).
RECURSIVE AssignRanks(_, _, _, _)
AssignRanks(values, indices, i, ranks) ==
    IF i >= Len(values) THEN ranks
    ELSE LET j == TieEnd(values, indices, i, i)
             avg_rank == Rat(i + j, 2)
             tied == {At(indices, k) : k \in i..j}
         IN  AssignRanks(values, indices, j + 1,
                         [m \in 1..Len(ranks) |->
                             IF (m - 1) \in tied THEN avg_rank ELSE ranks[m]])

\* rank_normalize (lines 191-225).
rank_normalize(values) ==
    LET n == Len(values)
    IN  IF n <= 1 THEN [k \in 1..n |-> Half]
        ELSE LET ranks == AssignRanks(values, SortedIndices(values), 0,
                                      [k \in 1..n |-> Zero])
             IN  [k \in 1..n |-> FDiv(ranks[k], FromInt(n - 1))]

\* BelowValue with the comparison not strict.
BelowValueOrEqual(x, value) == FLe(x, value)

\* The predicate handed to partition_point (line 246).
BelowValue(x, value) == FLt(x, value)

\* slice::partition_point: binary search for the first element that fails
\* the predicate (line 246).
RECURSIVE PartitionPoint(_, _, _, _)
PartitionPoint(reference, value, lo, hi) ==
    IF lo >= hi THEN lo
    ELSE LET mid == lo + (hi - lo) \div 2
         IN  IF BelowValue(At(reference, mid), value)
             THEN PartitionPoint(reference, value, mid + 1, hi)
             ELSE PartitionPoint(reference, value, lo, mid)

\* rank_normalize_with_reference (lines 240-250).
rank_normalize_with_reference(value, reference) ==
    IF reference = <<>> THEN Half
    ELSE LET pos == PartitionPoint(reference, value, 0, Len(reference))
         IN  FDiv(FromInt(pos), FromInt(Len(reference)))

\* ------------------------------------------------------------------------
\* Threshold selection (core-rust/src/ith.rs, core-rust/src/metrics.rs)
\* ------------------------------------------------------------------------

\* BarDrawdown with the quotient upside down.
BarDrawdownInverted(nav, running_max) == FSub(One, FDiv(running_max, nav))

\* The drawdown of one bar against the running maximum (metrics.rs line 61).
BarDrawdown(nav, running_max) == FSub(One, FDiv(nav, running_max))

\* The loop of max_drawdown from bar k on (metrics.rs lines 57-65).
RECURSIVE MaxDdScan(_, _, _, _)
MaxDdScan(nav_values, k, running_max, max_dd) ==
    IF k > Len(nav_values) THEN max_dd
    ELSE LET nav == nav_values[k]
             new_max == IF FGt(nav, running_max) THEN nav ELSE running_max
             drawdown == BarDrawdown(nav, new_max)
         IN  MaxDdScan(nav_values, k + 1, new_max,
                       IF FGt(drawdown, max_dd) THEN drawdown ELSE max_dd)

\* crate::metrics::max_drawdown (metrics.rs lines 49-68).
max_drawdown(nav_values) ==
    IF nav_values = <<>> THEN Zero
    ELSE MaxDdScan(nav_values, 1, nav_values[1], Zero)

\* determine_tmaeg (ith.rs lines 116-123).
determine_tmaeg(nav, method, fixed_value) ==
    CASE method = "mdd" -> max_drawdown(nav)
      [] method = "fixed" -> fixed_value
      [] OTHER -> fixed_value

\* ------------------------------------------------------------------------
\* Inputs of the model
\* ------------------------------------------------------------------------

\* Longest NAV series fed to the sweep.
MaxNavLen == 4

\* NAV values: the documented domain (finite, non-negative, zero included)
\* and one negative value outside it.
NavValues == {Rat(-1, 1), Zero, Half, One, Rat(2, 1), Rat(3, 1)}

NavSeqs == UNION {[1..k -> NavValues] : k \in 0..MaxNavLen}

Hurdles == {Rat(-1, 2), Zero, Rat(1, 4), One}

\* Longest NAV series fed to the rolling pipeline; lookback ranges over
\* 0..MaxRollLen + 1, so that both rejections happen.
MaxRollLen == 4

\* Values of the rolling pipeline's series: the documented domain and, for
\* the window test of line 198, a negative value and the non-finite NaN.
RollValues == {Rat(-1, 1), Zero, Half, One, Rat(2, 1), NaN}

RollSeqs == UNION {[1..k -> RollValues] : k \in 0..MaxRollLen}

\* Most observations fed to one estimator: five of warm-up and the rest in
\* steady state.
MaxFeed == 8

\* Observations: finite values, one of them negative, unevenly spaced.
FeedValues == {Rat(-1, 1), Zero, Rat(3, 1)}

\* Target percentiles handed to PSquareQuantile::new: the three quartiles the
\* normalizer uses and one outside [0, 1], which new clamps to 1.
Percentiles == {Rat(1, 4), Half, Rat(3, 4), Rat(3, 2)}

\* Most calls of normalize on one normalizer.
MaxCalls == 8

\* Longest input of the rank transforms.
MaxRankLen == 4

\* Values handed to the rank transforms: both infinities, and two finite
\* values closer to each other than EPSILON.
Tiny == <<1, 131072>>

RankValues == {NegInf, Zero, Tiny, One, PosInf}

RankSeqs == UNION {[1..k -> RankValues] : k \in 0..MaxRankLen}

\* The reference distributions: ascending sequences.
SortedRankSeqs == {r \in RankSeqs : \A k \in 1..(Len(r) - 1) : FLe(r[k], r[k + 1])}

\* The values ranked against a reference.
ProbeValues == RankValues \cup {NaN}

\* Method strings handed to determine_tmaeg.
Methods == {"mdd", "fixed", "drawdown"}

\* The fixed_value arguments of determine_tmaeg.
FixedValues == {Zero, Rat(1, 20)}

\* Largest epochs and lookback argument of normalize_epochs.
MaxCountArg == 5

\* The f64 arguments of the bounding normalizers: quarters from -2 to 2, two
\* large magnitudes, both infinities and NaN.
BoundValues ==
    {Rat(k, 4) : k \in -8..8} \cup {FromInt(1000), FromInt(-1000), PosInf, NegInf, NaN}

\* The bounding normalizers of one f64 argument.
BoundFns == {"normalize_excess", "normalize_cv", "normalize_drawdown", "normalize_runup"}

\* Longest series swept with two hurdles.
MaxPairLen == 6

\* The series swept with two hurdles: positive values, rising throughout or
\* with one fall, long enough for two crests, a fall back to the start and
\* two further crests.
PairValues == {Rat(1, 4), One, Rat(5, 4), Rat(3, 2), Rat(2, 1)}

Falls(nav) == Cardinality({k \in 1..(Len(nav) - 1) : FLt(nav[k + 1], nav[k])})

PairSeqs == {nav \in UNION {[1..k -> PairValues] : k \in 0..MaxPairLen} : Falls(nav) <= 1}

\* The two hurdles of such a pair of sweeps.
PairHurdles == {Zero, Rat(1, 4)}

\* Longest series compared window by window.
MaxLocalLen == 3

\* The values of the series compared window by window: one that makes a
\* window invalid, and three valid ones.
LocalValues == {Zero, Half, One, Rat(2, 1)}

LocalSeqs == UNION {[1..k -> LocalValues] : k \in 1..MaxLocalLen}

\* nav with every bar outside the window that ends at Rust index i
\* overwritten by c.
OutsideOverwritten(nav, lookback, i, c) ==
    [k \in 1..Len(nav) |-> IF k >= i + 2 - lookback /\ k <= i + 1 THEN nav[k] ELSE c]

\* A component that is not running in the specification at hand.
Idle == [pc |-> "idle"]

\* ------------------------------------------------------------------------
\* Specification of one call of excess_gain_excess_loss
\* ------------------------------------------------------------------------

SweepInit ==
    /\ sweep \in {[pc |-> "call", nav |-> nv, hurdle |-> h, i |-> 0,
                   s |-> <<>>, result |-> <<>>] : nv \in NavSeqs, h \in Hurdles}
    /\ rolling = Idle
    /\ psquare = Idle
    /\ normalizer = Idle
    /\ call = Idle

\* n == 0: the early return (lines 8-17).
SweepReturnEmpty ==
    /\ sweep.pc = "call"
    /\ Len(sweep.nav) = 0
    /\ sweep' = [sweep EXCEPT !.pc = "done", !.result = EmptyResult]
    /\ UNCHANGED <<rolling, psquare, normalizer, call>>

\* Allocation of the vectors and the scalars (lines 19-28).
SweepEnter ==
    /\ sweep.pc = "call"
    /\ Len(sweep.nav) > 0
    /\ sweep' = [sweep EXCEPT !.pc = "loop", !.i = 1, !.s = SweepStart(sweep.nav)]
    /\ UNCHANGED <<rolling, psquare, normalizer, call>>

\* One iteration of for i in 1..n (lines 30-70).
SweepIterate ==
    /\ sweep.pc = "loop"
    /\ sweep.i < Len(sweep.nav)
    /\ sweep' = [sweep EXCEPT
                    !.i = sweep.i + 1,
                    !.s = SweepStep(sweep.s, sweep.nav, sweep.hurdle, sweep.i)]
    /\ UNCHANGED <<rolling, psquare, normalizer, call>>

\* After the loop: count, interval statistic, result (lines 72-81).
SweepReturn ==
    /\ sweep.pc = "loop"
    /\ sweep.i >= Len(sweep.nav)
    /\ sweep' = [sweep EXCEPT !.pc = "done", !.result = SweepResult(sweep.s)]
    /\ UNCHANGED <<rolling, psquare, normalizer, call>>

SweepNext == SweepReturnEmpty \/ SweepEnter \/ SweepIterate \/ SweepReturn

SpecSweep == SweepInit /\ [][SweepNext]_vars

\* C1: the result's excess_gains, excess_losses and epoch flags each have
\* exactly len(nav) entries, and for a non-empty series index 0 holds the
\* neutral state (gain 0, loss 0, flag false).
C1_LengthsAndNeutralStart ==
    sweep.pc = "done" =>
        /\ Len(sweep.result.excess_gains) = Len(sweep.nav)
        /\ Len(sweep.result.excess_losses) = Len(sweep.nav)
        /\ Len(sweep.result.ith_epochs) = Len(sweep.nav)
        /\ Len(sweep.nav) > 0 =>
              /\ sweep.result.excess_gains[1] = Zero
              /\ sweep.result.excess_losses[1] = Zero
              /\ sweep.result.ith_epochs[1] = FALSE

\* A finished sweep of a series of at least three bars that recorded a gain.
C1_Witness ==
    /\ sweep.pc = "done"
    /\ Len(sweep.nav) >= 3
    /\ \E k \in 2..Len(sweep.nav) : FGt(sweep.result.excess_gains[k], Zero)

\* C2: for every bar i >= 1 the epoch flag is true exactly when the recorded
\* excess gain is strictly greater than the recorded excess loss and strictly
\* greater than hurdle, and num_of_ith_epochs is the number of true flags.
C2_EpochFlagFromRecordedValues ==
    sweep.pc = "done" =>
        /\ \A k \in 2..Len(sweep.nav) :
              sweep.result.ith_epochs[k] <=>
                  /\ FLt(sweep.result.excess_losses[k], sweep.result.excess_gains[k])
                  /\ FLt(sweep.hurdle, sweep.result.excess_gains[k])
        /\ sweep.result.num_of_ith_epochs =
              Len(SelectSeq(sweep.result.ith_epochs, LAMBDA b : b))

\* A finished sweep with a flagged bar, an unflagged bar whose gain equals the
\* hurdle, both after index 0.
C2_Witness ==
    /\ sweep.pc = "done"
    /\ \E k \in 2..Len(sweep.nav) : sweep.result.ith_epochs[k]
    /\ \E k \in 2..Len(sweep.nav) :
          /\ ~sweep.result.ith_epochs[k]
          /\ sweep.result.excess_gains[k] = sweep.hurdle
          /\ FGt(sweep.result.excess_gains[k], sweep.result.excess_losses[k])

\* ------------------------------------------------------------------------
\* Specification of one call of compute_rolling_ith
\* ------------------------------------------------------------------------

RollingInit ==
    /\ rolling \in {[pc |-> "call", nav |-> nv, lookback |-> lb, i |-> 0,
                     features |-> <<>>] : nv \in RollSeqs, lb \in 0..(MaxRollLen + 1)}
    /\ sweep = Idle
    /\ psquare = Idle
    /\ normalizer = Idle
    /\ call = Idle

\* A failing assert! (lines 182-186): the call panics, nothing is returned.
RollingReject ==
    /\ rolling.pc = "call"
    /\ ~LookbackAccepted(rolling.nav, rolling.lookback)
    /\ rolling' = [rolling EXCEPT !.pc = "panicked"]
    /\ UNCHANGED <<sweep, psquare, normalizer, call>>

\* Both asserts pass: allocate the features (lines 188-189).
RollingEnter ==
    /\ rolling.pc = "call"
    /\ LookbackAccepted(rolling.nav, rolling.lookback)
    /\ rolling' = [rolling EXCEPT !.pc = "loop",
                                  !.i = FirstWindowEnd(rolling.lookback),
                                  !.features = NewFeatures(Len(rolling.nav))]
    /\ UNCHANGED <<sweep, psquare, normalizer, call>>

\* An iteration that skips its window (lines 193-201).
RollingSkip ==
    /\ rolling.pc = "loop"
    /\ rolling.i < Len(rolling.nav)
    /\ InvalidFirst(rolling.nav[rolling.i + 2 - rolling.lookback])
    /\ rolling' = [rolling EXCEPT !.i = SkipWindow(rolling.i, Len(rolling.nav))]
    /\ UNCHANGED <<sweep, psquare, normalizer, call>>

\* An iteration that computes and stores its window's features (lines 193-231).
RollingWindow ==
    /\ rolling.pc = "loop"
    /\ rolling.i < Len(rolling.nav)
    /\ ~InvalidFirst(rolling.nav[rolling.i + 2 - rolling.lookback])
    /\ \E w \in {WindowFeatures(rolling.nav, rolling.lookback, rolling.i)} :
          rolling' = [rolling EXCEPT
                         !.i = rolling.i + 1,
                         !.features = [f \in FeatureNames |->
                                          [rolling.features[f] EXCEPT ![rolling.i + 1] = w[f]]]]
    /\ UNCHANGED <<sweep, psquare, normalizer, call>>

\* The loop is over: the features are returned (line 234).
RollingReturn ==
    /\ rolling.pc = "loop"
    /\ rolling.i >= Len(rolling.nav)
    /\ rolling' = [rolling EXCEPT !.pc = "done"]
    /\ UNCHANGED <<sweep, psquare, normalizer, call>>

RollingNext ==
    RollingReject \/ RollingEnter \/ RollingSkip \/ RollingWindow \/ RollingReturn

SpecRolling == RollingInit /\ [][RollingNext]_vars

\* C3: compute_rolling_ith panics, returning no features, when lookback is 0
\* or greater than len(nav), and accepts every lookback in 1..len(nav).
C3_LookbackRejection ==
    rolling.pc # "call" =>
        /\ (rolling.lookback = 0 \/ rolling.lookback > Len(rolling.nav)) =>
              rolling.pc = "panicked" /\ rolling.features = <<>>
        /\ (1 <= rolling.lookback /\ rolling.lookback <= Len(rolling.nav)) =>
              rolling.pc \in {"loop", "done"} /\ rolling.features # <<>>

\* A call rejected because lookback is one more than the length of the series.
C3_Witness ==
    /\ rolling.pc = "panicked"
    /\ Len(rolling.nav) >= 2
    /\ rolling.lookback = Len(rolling.nav) + 1

\* C4: for an accepted call each of the eight feature sequences has exactly
\* len(nav) entries, and every entry at an index below lookback - 1 is NaN in
\* all eight.
C4_LengthAndLeadingSentinels ==
    rolling.pc \in {"loop", "done"} =>
        \A f \in DOMAIN rolling.features :
            /\ Len(rolling.features[f]) = Len(rolling.nav)
            /\ \A k \in 0..(rolling.lookback - 2) : IsNaN(rolling.features[f][k + 1])

\* A returned call with lookback >= 3 that stored a value at index lookback - 1.
C4_Witness ==
    /\ rolling.pc = "done"
    /\ rolling.lookback >= 3
    /\ Cardinality(DOMAIN rolling.features) = 8
    /\ ~IsNaN(rolling.features["bull_cv"][rolling.lookback])

\* Rust index i closes a full window whose first value is positive and finite.
ValidWindowAt(i) ==
    /\ i >= rolling.lookback - 1
    /\ i < Len(rolling.nav)
    /\ FGt(rolling.nav[i + 2 - rolling.lookback], Zero)
    /\ IsFinite(rolling.nav[i + 2 - rolling.lookback])

InUnitInterval(x) == ~IsNaN(x) /\ FLe(Zero, x) /\ FLe(x, One)

\* C5: in a returned call, at every index i >= lookback - 1 whose window starts
\* with a positive finite value all eight features are non-NaN values in
\* [0, 1]; with lookback = len(nav) no index but the last carries a value.
C5_ValidWindowsBounded ==
    rolling.pc = "done" =>
        /\ \A i \in 0..(Len(rolling.nav) - 1) :
              ValidWindowAt(i) =>
                  \A f \in DOMAIN rolling.features :
                      InUnitInterval(rolling.features[f][i + 1])
        /\ rolling.lookback = Len(rolling.nav) =>
              \A f \in DOMAIN rolling.features :
                  \A k \in 1..(Len(rolling.nav) - 1) : IsNaN(rolling.features[f][k])

\* A returned call with lookback = len(nav) >= 3 whose only window is valid,
\* detected a bull epoch and holds a zero further on.
C5_Witness ==
    /\ rolling.pc = "done"
    /\ rolling.lookback = Len(rolling.nav)
    /\ rolling.lookback >= 3
    /\ ValidWindowAt(rolling.lookback - 1)
    /\ FGt(rolling.features["bull_excess_gain"][rolling.lookback], Zero)
    /\ \E k \in 2..Len(rolling.nav) : rolling.nav[k] = Zero

\* ------------------------------------------------------------------------
\* Specification of one PSquareQuantile object
\* est are the object's fields; fed is the history of the values passed to
\* update, last the method called last and ret what quantile() returned.
\* ------------------------------------------------------------------------

PSquareInit ==
    /\ psquare \in {[pc |-> "live", est |-> NewEstimator(p0), fed |-> <<>>,
                     last |-> "new", ret |-> NaN] : p0 \in Percentiles}
    /\ sweep = Idle
    /\ rolling = Idle
    /\ normalizer = Idle
    /\ call = Idle

\* update(x)
PSquareUpdate ==
    /\ psquare.pc = "live"
    /\ Len(psquare.fed) < MaxFeed
    /\ \E x \in FeedValues :
          psquare' = [psquare EXCEPT !.est = Update(psquare.est, x),
                                     !.fed = Append(psquare.fed, x),
                                     !.last = "update",
                                     !.ret = NaN]
    /\ UNCHANGED <<sweep, rolling, normalizer, call>>

\* quantile(): takes &self, returns a value.
PSquareQuantile ==
    /\ psquare.pc = "live"
    /\ psquare' = [psquare EXCEPT !.last = "quantile", !.ret = Quantile(psquare.est)]
    /\ UNCHANGED <<sweep, rolling, normalizer, call>>

PSquareNext == PSquareUpdate \/ PSquareQuantile

SpecPSquare == PSquareInit /\ [][PSquareNext]_vars

NearestIndex(x) ==
    CHOOSE k \in 0..MaxFeed : FLt(FSub(x, Half), FromInt(k)) /\ FLe(FromInt(k), FAdd(x, Half))

\* The element at Rust index idx of the values fed, sorted ascending: the
\* value with at most idx values below it and more than idx values at or
\* below it.
OrderStatistic(fed, idx) ==
    CHOOSE v \in {fed[j] : j \in 1..Len(fed)} :
        /\ Cardinality({j \in 1..Len(fed) : FLt(fed[j], v)}) <= idx
        /\ Cardinality({j \in 1..Len(fed) : FLe(fed[j], v)}) > idx

\* What C7 says quantile() returns for an estimator with fields est that was
\* fed the values fed.
C7_Expected(est, fed) ==
    IF Len(fed) = 0 THEN NaN
    ELSE IF Len(fed) <= 4
         THEN OrderStatistic(fed, NearestIndex(FMul(FromInt(Len(fed) - 1), est.p)))
         ELSE At(est.q, 2)

\* C7: quantile() returns NaN with no observation, with 1 to 4 observations
\* the element of the sorted observations at index round((count - 1) * p),
\* with 5 or more the middle marker q[2]; and it leaves the estimator as it was.
C7_QuantileQuery ==
    [][psquare'.last = "quantile" =>
          /\ psquare'.est = psquare.est
          /\ psquare'.fed = psquare.fed
          /\ psquare'.ret = C7_Expected(psquare.est, psquare.fed)]_vars

\* quantile() of the lower quartile after 3, -1, 0 were fed: index
\* round(2 * 0.25) = 1 of the sorted values, the value 0 fed last.
C7_Witness ==
    /\ psquare.last = "quantile"
    /\ Len(psquare.fed) = 3
    /\ psquare.est.p = Rat(1, 4)
    /\ FLt(psquare.fed[2], psquare.fed[3])
    /\ FLt(psquare.fed[3], psquare.fed[1])
    /\ psquare.ret = psquare.fed[3]

C9_ConstantStream ==
    (/\ psquare.last = "quantile"
     /\ Len(psquare.fed) >= 5
     /\ \A j \in 1..Len(psquare.fed) : psquare.fed[j] = psquare.fed[1]) =>
        psquare.ret = psquare.fed[1]

\* quantile() after eight equal negative values.
C9_Witness ==
    /\ psquare.last = "quantile"
    /\ Len(psquare.fed) >= 8
    /\ \A j \in 1..Len(psquare.fed) : psquare.fed[j] = Rat(-1, 1)
    /\ psquare.ret = Rat(-1, 1)

\* ------------------------------------------------------------------------
\* Specification of one OnlineRobustNormalizer object
\* obj are the object's three estimators; calls counts the calls of
\* normalize, x is the argument of the last call and ret its return value.
\* ------------------------------------------------------------------------

NormalizerInit ==
    /\ normalizer = [pc |-> "live", obj |-> NewNormalizer, calls |-> 0,
                     last |-> "new", x |-> NaN, ret |-> NaN, ret_count |-> 0]
    /\ sweep = Idle
    /\ rolling = Idle
    /\ psquare = Idle
    /\ call = Idle

\* normalize(x) (lines 435-454).
NormalizerNormalize ==
    /\ normalizer.pc = "live"
    /\ normalizer.calls < MaxCalls
    /\ \E x \in FeedValues :
          \E o \in {UpdateAll(normalizer.obj, x)} :
              normalizer' = [normalizer EXCEPT !.obj = o,
                                               !.calls = normalizer.calls + 1,
                                               !.last = "normalize",
                                               !.x = x,
                                               !.ret = NormalizeReturn(o, x)]
    /\ UNCHANGED <<sweep, rolling, psquare, call>>

\* median() (lines 457-459): a read through &self.
NormalizerMedian ==
    /\ normalizer.pc = "live"
    /\ normalizer' = [normalizer EXCEPT !.last = "median",
                                        !.ret = NormalizerMedianValue(normalizer.obj)]
    /\ UNCHANGED <<sweep, rolling, psquare, call>>

\* iqr() (lines 462-464): a read through &self.
NormalizerIqr ==
    /\ normalizer.pc = "live"
    /\ normalizer' = [normalizer EXCEPT !.last = "iqr",
                                        !.ret = NormalizerIqrValue(normalizer.obj)]
    /\ UNCHANGED <<sweep, rolling, psquare, call>>

\* count() (lines 467-469): a read through &self.
NormalizerCount ==
    /\ normalizer.pc = "live"
    /\ normalizer' = [normalizer EXCEPT !.last = "count",
                                        !.ret_count = NormalizerCountValue(normalizer.obj)]
    /\ UNCHANGED <<sweep, rolling, psquare, call>>

NormalizerNext ==
    NormalizerNormalize \/ NormalizerMedian \/ NormalizerIqr \/ NormalizerCount

SpecNormalizer == NormalizerInit /\ [][NormalizerNext]_vars

\* C10: normalize returns exactly 0.5 on each of the first four calls, and
\* from the fifth call on logistic((x - median) / (max(Q3 - Q1, epsilon) / 1.35))
\* of the three estimates as they are after the update with x.
C10_NormalizeValue ==
    normalizer.last = "normalize" =>
        IF normalizer.calls <= 4
        THEN normalizer.ret = Half
        ELSE LET med == At(normalizer.obj.median.q, 2)
                 spread == FSub(At(normalizer.obj.q3.q, 2), At(normalizer.obj.q1.q, 2))
                 floored == IF FLt(spread, EPSILON) THEN EPSILON ELSE spread
                 z == FDiv(FSub(normalizer.x, med), FDiv(floored, Rat(135, 100)))
             IN  normalizer.ret = FDiv(One, FAdd(One, FExp(FNeg(z))))

\* A call past the warm-up whose score is neither neutral nor saturated.
C10_Witness ==
    /\ normalizer.last = "normalize"
    /\ normalizer.calls >= 6
    /\ FLt(Zero, normalizer.ret)
    /\ FLt(normalizer.ret, One)
    /\ normalizer.ret # Half

\* C11: the three estimators of a normalizer always hold the same observation
\* count, the number of normalize calls made so far, and a call of median(),
\* iqr() or count() leaves all three estimators as they were.
C11_LockStepAndReadOnly ==
    /\ [](/\ normalizer.obj.q1.count = normalizer.calls
          /\ normalizer.obj.median.count = normalizer.calls
          /\ normalizer.obj.q3.count = normalizer.calls)
    /\ [][normalizer'.last \in {"median", "iqr", "count"} =>
              normalizer'.obj = normalizer.obj]_vars

\* An accessor has answered on a normalizer that is past its warm-up.
C11_Witness ==
    /\ normalizer.last = "iqr"
    /\ normalizer.calls >= 6
    /\ normalizer.obj.q3.count = 6
    /\ FGt(normalizer.ret, Zero)

\* ------------------------------------------------------------------------
\* Specification of one call of a rank transform
\* call.values is the slice argument, call.value the scalar argument of
\* rank_normalize_with_reference, call.out and call.ret the returned vector
\* and the returned number.
\* ------------------------------------------------------------------------

RankInit ==
    /\ \/ \E v \in RankSeqs :
             call = [pc |-> "call", fn |-> "rank_normalize", values |-> v,
                     value |-> NaN, out |-> <<>>, ret |-> NaN]
       \/ \E r \in SortedRankSeqs : \E x \in ProbeValues :
             call = [pc |-> "call", fn |-> "rank_normalize_with_reference",
                     values |-> r, value |-> x, out |-> <<>>, ret |-> NaN]
    /\ sweep = Idle
    /\ rolling = Idle
    /\ psquare = Idle
    /\ normalizer = Idle

\* rank_normalize(values) runs to its return.
RankNormalize ==
    /\ call.pc = "call"
    /\ call.fn = "rank_normalize"
    /\ call' = [call EXCEPT !.pc = "done", !.out = rank_normalize(call.values)]
    /\ UNCHANGED <<sweep, rolling, psquare, normalizer>>

\* rank_normalize_with_reference(value, reference) runs to its return.
RankWithReference ==
    /\ call.pc = "call"
    /\ call.fn = "rank_normalize_with_reference"
    /\ call' = [call EXCEPT !.pc = "done",
                            !.ret = rank_normalize_with_reference(call.value, call.values)]
    /\ UNCHANGED <<sweep, rolling, psquare, normalizer>>

RankNext == RankNormalize \/ RankWithReference

SpecRank == RankInit /\ [][RankNext]_vars

\* Number of entries of values strictly less than x, and equal to x.
CountLess(values, x) == Cardinality({k \in 1..Len(values) : FLt(values[k], x)})

CountEqual(values, x) == Cardinality({k \in 1..Len(values) : FEq(values[k], x)})

\* C12: for n >= 2 the output at position i is (L_i + (E_i - 1)/2) / (n - 1)
\* with L_i the number of elements strictly less than values[i] and E_i the
\* number equal to it; for n <= 1 every output is 0.5.
C12_FractionalRank ==
    (call.pc = "done" /\ call.fn = "rank_normalize") =>
        LET n == Len(call.values)
        IN  /\ Len(call.out) = n
            /\ \A i \in 1..n :
                  IF n <= 1 THEN call.out[i] = Half
                  ELSE call.out[i] =
                          FDiv(FAdd(FromInt(CountLess(call.values, call.values[i])),
                                    Rat(CountEqual(call.values, call.values[i]) - 1, 2)),
                               FromInt(n - 1))

\* C13: rank_normalize keeps order (values[i] < values[j] gives
\* output[i] <= output[j]), gives equal values equal outputs, and every
\* output lies in [0,1].
C13_OrderTiesAndRange ==
    (call.pc = "done" /\ call.fn = "rank_normalize") =>
        \A i \in 1..Len(call.values) :
            /\ InUnitInterval(call.out[i])
            /\ \A j \in 1..Len(call.values) :
                  /\ FLt(call.values[i], call.values[j]) => FLe(call.out[i], call.out[j])
                  /\ FEq(call.values[i], call.values[j]) => call.out[i] = call.out[j]

\* C14: against a reference sorted in ascending order,
\* rank_normalize_with_reference returns the number of reference elements
\* strictly less than value divided by the reference's length, and 0.5 when
\* the reference is empty.
C14_EmpiricalCdf ==
    (call.pc = "done" /\ call.fn = "rank_normalize_with_reference") =>
        IF Len(call.values) = 0 THEN call.ret = Half
        ELSE call.ret = Rat(CountLess(call.values, call.value), Len(call.values))

\* A value that occurs in a reference of several distinct elements, some of
\* them below it.
C14_Witness ==
    /\ call.pc = "done"
    /\ call.fn = "rank_normalize_with_reference"
    /\ Len(call.values) >= 3
    /\ \E k \in 1..Len(call.values) : call.values[k] = call.value
    /\ FLt(Zero, call.ret)
    /\ FLt(call.ret, One)

\* ------------------------------------------------------------------------
\* Specification of one call of determine_tmaeg
\* call.values is nav, call.method the method string, call.value fixed_value.
\* ------------------------------------------------------------------------

ThresholdInit ==
    /\ \E nav \in NavSeqs : \E m \in Methods : \E f \in FixedValues :
          call = [pc |-> "call", fn |-> "determine_tmaeg", values |-> nav,
                  method |-> m, value |-> f, ret |-> NaN]
    /\ sweep = Idle
    /\ rolling = Idle
    /\ psquare = Idle
    /\ normalizer = Idle

\* determine_tmaeg(nav, method, fixed_value) runs to its return.
ThresholdCall ==
    /\ call.pc = "call"
    /\ call.fn = "determine_tmaeg"
    /\ call' = [call EXCEPT !.pc = "done",
                            !.ret = determine_tmaeg(call.values, call.method, call.value)]
    /\ UNCHANGED <<sweep, rolling, psquare, normalizer>>

ThresholdNext == ThresholdCall

SpecThreshold == ThresholdInit /\ [][ThresholdNext]_vars

\* The running peak of nav over bars 1..j.
PeakUpTo(nav, j) ==
    CHOOSE p \in {nav[k] : k \in 1..j} : \A k \in 1..j : FLe(nav[k], p)

\* The defined terms 1 - nav[j]/peak over every bar j.
DrawdownTerms(nav) ==
    {FSub(One, FDiv(nav[j], PeakUpTo(nav, j))) : j \in 1..Len(nav)} \ {NaN}

\* The largest of them, 0 when there is none.
LargestDrawdown(nav) ==
    IF DrawdownTerms(nav) = {} THEN Zero
    ELSE CHOOSE t \in DrawdownTerms(nav) : \A u \in DrawdownTerms(nav) : FLe(u, t)

FlaggedBars == {k - 1 : k \in {m \in 1..Len(sweep.result.ith_epochs) :
                                  sweep.result.ith_epochs[m]}}

\* The gap that ends at flagged bar f: its distance to the flagged bar before
\* it, or to index 0 when it is the first.
GapBefore(F, f) ==
    f - (CHOOSE g \in {0} \cup {h \in F : h < f} :
            \A h \in F : h < f => h <= g)

\* Sum over the flagged bars up to index k of the gap (pow = 1) or of its
\* square (pow = 2).
RECURSIVE GapPowerSum(_, _, _)
GapPowerSum(F, k, pow) ==
    IF k < 0 THEN 0
    ELSE GapPowerSum(F, k - 1, pow)
         + (IF k \in F
            THEN (IF pow = 1 THEN GapBefore(F, k) ELSE GapBefore(F, k) * GapBefore(F, k))
            ELSE 0)

\* Population standard deviation over mean of the gaps: sqrt(E[g^2] - E[g]^2) / E[g].
GapCv(F, last) ==
    LET m == Cardinality(F)
        mean == Rat(GapPowerSum(F, last, 1), m)
        mean_sq == Rat(GapPowerSum(F, last, 2), m)
    IN  FDiv(FSqrt(FSub(mean_sq, FMul(mean, mean))), mean)

\* C16: the interval coefficient of variation of a finished sweep is NaN
\* exactly when no bar is flagged, and otherwise the population standard
\* deviation over the mean of the gaps between consecutive entries of
\* index 0 followed by the flagged indices (0 for a single flagged bar).
C16_IntervalCv ==
    sweep.pc = "done" =>
        /\ IsNaN(sweep.result.ith_intervals_cv) <=> FlaggedBars = {}
        /\ FlaggedBars # {} =>
              sweep.result.ith_intervals_cv = GapCv(FlaggedBars, Len(sweep.nav))
        /\ Cardinality(FlaggedBars) = 1 => sweep.result.ith_intervals_cv = Zero

\* A finished sweep with two flagged bars at unequal gaps.
C16_Witness ==
    /\ sweep.pc = "done"
    /\ Cardinality(FlaggedBars) >= 2
    /\ FGt(sweep.result.ith_intervals_cv, Zero)

\* ------------------------------------------------------------------------
\* Specification of one call of a bounding normalizer
\* call.value is the f64 argument; call.epochs and call.lookback are the
\* arguments of normalize_epochs.
\* ------------------------------------------------------------------------

BoundedInit ==
    /\ \/ \E f \in BoundFns : \E x \in BoundValues :
             call = [pc |-> "call", fn |-> f, value |-> x,
                     epochs |-> 0, lookback |-> 0, ret |-> NaN]
       \/ \E e \in 0..MaxCountArg : \E l \in 0..MaxCountArg :
             call = [pc |-> "call", fn |-> "normalize_epochs", value |-> NaN,
                     epochs |-> e, lookback |-> l, ret |-> NaN]
    /\ sweep = Idle
    /\ rolling = Idle
    /\ psquare = Idle
    /\ normalizer = Idle

BoundedEpochs ==
    /\ call.pc = "call"
    /\ call.fn = "normalize_epochs"
    /\ call' = [call EXCEPT !.pc = "done",
                            !.ret = normalize_epochs(call.epochs, call.lookback)]
    /\ UNCHANGED <<sweep, rolling, psquare, normalizer>>

BoundedExcess ==
    /\ call.pc = "call"
    /\ call.fn = "normalize_excess"
    /\ call' = [call EXCEPT !.pc = "done", !.ret = normalize_excess(call.value)]
    /\ UNCHANGED <<sweep, rolling, psquare, normalizer>>

BoundedCv ==
    /\ call.pc = "call"
    /\ call.fn = "normalize_cv"
    /\ call' = [call EXCEPT !.pc = "done", !.ret = normalize_cv(call.value)]
    /\ UNCHANGED <<sweep, rolling, psquare, normalizer>>

BoundedDrawdown ==
    /\ call.pc = "call"
    /\ call.fn = "normalize_drawdown"
    /\ call' = [call EXCEPT !.pc = "done", !.ret = normalize_drawdown(call.value)]
    /\ UNCHANGED <<sweep, rolling, psquare, normalizer>>

BoundedRunup ==
    /\ call.pc = "call"
    /\ call.fn = "normalize_runup"
    /\ call' = [call EXCEPT !.pc = "done", !.ret = normalize_runup(call.value)]
    /\ UNCHANGED <<sweep, rolling, psquare, normalizer>>

BoundedNext ==
    BoundedEpochs \/ BoundedExcess \/ BoundedCv \/ BoundedDrawdown \/ BoundedRunup

SpecBounded == BoundedInit /\ [][BoundedNext]_vars

\* C17: every bounding normalizer returns a value in [0,1]: normalize_epochs
\* for every pair of counts, exactly 0.5 when lookback is 0; normalize_cv for
\* every cv, NaN included; normalize_excess, normalize_drawdown and
\* normalize_runup for every argument that is a number.
C17_BoundedOutputs ==
    call.pc = "done" =>
        /\ call.fn = "normalize_epochs" =>
              /\ InUnitInterval(call.ret)
              /\ call.lookback = 0 => call.ret = Half
        /\ call.fn = "normalize_cv" => InUnitInterval(call.ret)
        /\ (call.fn \in {"normalize_excess", "normalize_drawdown", "normalize_runup"}
            /\ ~IsNaN(call.value)) => InUnitInterval(call.ret)

\* The degenerate cases the claim names have been computed: a NaN cv, or a
\* zero lookback with epochs counted.
C17_Witness ==
    /\ call.pc = "done"
    /\ \/ call.fn = "normalize_cv" /\ IsNaN(call.value) /\ call.ret # Half
       \/ call.fn = "normalize_epochs" /\ call.lookback = 0 /\ call.epochs > 0

\* ------------------------------------------------------------------------
\* Specification of two sweeps of one series with two hurdles
\* (test_different_hurdles): call.values is nav, call.low and call.high the
\* hurdles, call.result_low and call.result_high the two results.
\* ------------------------------------------------------------------------

HurdlePairInit ==
    /\ \E nav \in PairSeqs : \E lo \in PairHurdles : \E hi \in PairHurdles :
          /\ FLe(lo, hi)
          /\ call = [pc |-> "call", fn |-> "excess_gain_excess_loss", values |-> nav,
                     low |-> lo, high |-> hi, result_low |-> <<>>, result_high |-> <<>>]
    /\ sweep = Idle
    /\ rolling = Idle
    /\ psquare = Idle
    /\ normalizer = Idle

\* excess_gain_excess_loss(&nav, h_low) runs to its return.
HurdlePairLow ==
    /\ call.pc = "call"
    /\ call' = [call EXCEPT !.pc = "low_done",
                            !.result_low = excess_gain_excess_loss(call.values, call.low)]
    /\ UNCHANGED <<sweep, rolling, psquare, normalizer>>

\* excess_gain_excess_loss(&nav, h_high) runs to its return.
HurdlePairHigh ==
    /\ call.pc = "low_done"
    /\ call' = [call EXCEPT !.pc = "done",
                            !.result_high = excess_gain_excess_loss(call.values, call.high)]
    /\ UNCHANGED <<sweep, rolling, psquare, normalizer>>

HurdlePairNext == HurdlePairLow \/ HurdlePairHigh

SpecHurdlePair == HurdlePairInit /\ [][HurdlePairNext]_vars

\* C18: on one series and hurdles h_low <= h_high, the sweep with h_high
\* reports at most as many epochs as the sweep with h_low.
C18_EpochsAntitoneInHurdle ==
    call.pc = "done" =>
        call.result_high.num_of_ith_epochs <= call.result_low.num_of_ith_epochs

\* C18 as amended: on one non-decreasing series of strictly positive values
\* and hurdles h_low <= h_high, the sweep with h_high reports at most as many
\* epochs as the sweep with h_low.
C18_EpochsAntitoneOnUptrend ==
    (/\ call.pc = "done"
     /\ \A k \in 1..Len(call.values) : FGt(call.values[k], Zero)
     /\ \A k \in 1..(Len(call.values) - 1) : FLe(call.values[k], call.values[k + 1])) =>
        call.result_high.num_of_ith_epochs <= call.result_low.num_of_ith_epochs

\* Two sweeps of a rising series on which the higher hurdle loses an epoch.
C18_Witness ==
    /\ call.pc = "done"
    /\ Len(call.values) >= 4
    /\ \A k \in 1..(Len(call.values) - 1) : FLt(call.values[k], call.values[k + 1])
    /\ call.result_high.num_of_ith_epochs >= 2
    /\ call.result_high.num_of_ith_epochs < call.result_low.num_of_ith_epochs

\* C19: on a series of strictly positive values every entry of excess_gains
\* is greater than or equal to 0, whatever the hurdle.
C19_ExcessGainsNonNegative ==
    (/\ sweep.pc = "done"
     /\ \A k \in 1..Len(sweep.nav) : FGt(sweep.nav[k], Zero)) =>
        \A k \in 1..Len(sweep.result.excess_gains) :
            FGe(sweep.result.excess_gains[k], Zero)

\* A finished sweep of a positive series with a positive gain booked and a
\* fall after it.
C19_Witness ==
    /\ sweep.pc = "done"
    /\ \A k \in 1..Len(sweep.nav) : FGt(sweep.nav[k], Zero)
    /\ \E k \in 1..Len(sweep.nav) : FGt(sweep.result.excess_gains[k], Zero)
    /\ \E k \in 1..(Len(sweep.nav) - 1) : FLt(sweep.nav[k + 1], sweep.nav[k])
    /\ \E k \in 1..Len(sweep.nav) : FGt(sweep.result.excess_losses[k], Zero)

\* ------------------------------------------------------------------------
\* Specification of two calls of compute_rolling_ith on series that agree on
\* one window: call.nav_a and call.nav_b are the series, call.at the Rust
\* index the window ends at.
\* ------------------------------------------------------------------------

LocalityInit ==
    /\ \E nav \in LocalSeqs : \E lb \in 1..Len(nav) : \E i \in (lb - 1)..(Len(nav) - 1) :
          \E c \in LocalValues :
             call = [pc |-> "call", fn |-> "compute_rolling_ith", nav_a |-> nav,
                     nav_b |-> OutsideOverwritten(nav, lb, i, c),
                     lookback |-> lb, at |-> i,
                     features_a |-> <<>>, features_b |-> <<>>]
    /\ sweep = Idle
    /\ rolling = Idle
    /\ psquare = Idle
    /\ normalizer = Idle

\* compute_rolling_ith(&nav_a, lookback) runs to its return.
LocalityFirst ==
    /\ call.pc = "call"
    /\ call' = [call EXCEPT !.pc = "first_done",
                            !.features_a = compute_rolling_ith(call.nav_a, call.lookback)]
    /\ UNCHANGED <<sweep, rolling, psquare, normalizer>>

\* compute_rolling_ith(&nav_b, lookback) runs to its return.
LocalitySecond ==
    /\ call.pc = "first_done"
    /\ call' = [call EXCEPT !.pc = "done",
                            !.features_b = compute_rolling_ith(call.nav_b, call.lookback)]
    /\ UNCHANGED <<sweep, rolling, psquare, normalizer>>

LocalityNext == LocalityFirst \/ LocalitySecond

SpecLocality == LocalityInit /\ [][LocalityNext]_vars

\* C20: two series that agree on the window nav[i-lookback+1 .. i] get
\* identical values for all eight features at index i, whatever they hold
\* outside the window.
C20_WindowLocality ==
    (/\ call.pc = "done"
     /\ \A k \in (call.at + 2 - call.lookback)..(call.at + 1) :
           call.nav_a[k] = call.nav_b[k]) =>
        \A f \in FeatureNames :
            call.features_a[f][call.at + 1] = call.features_b[f][call.at + 1]

\* Two series that differ before and after a valid window, whose features
\* are computed at the window and differ at another index.
C20_Witness ==
    /\ call.pc = "done"
    /\ call.at + 1 < Len(call.nav_a)
    /\ call.at + 1 > call.lookback
    /\ call.nav_a[1] # call.nav_b[1]
    /\ call.nav_a[Len(call.nav_a)] # call.nav_b[Len(call.nav_b)]
    /\ ~IsNaN(call.features_a.bull_epoch_density[call.at + 1])
    /\ \E k \in 1..Len(call.nav_a) : \E f \in FeatureNames :
          call.features_a[f][k] # call.features_b[f][k]

\* The step of the sweep that handles Rust bar i = sweep.i.
IsSweepStep == sweep.pc = "loop" /\ sweep'.pc = "loop" /\ sweep'.i = sweep.i + 1

\* C21: at each step i >= 1 a reset fires exactly when, after the crest and
\* nadir updates of the step, the running gain is strictly above the absolute
\* running loss and strictly above hurdle and the candidate crest is at least
\* the endorsed crest; a firing reset moves the endorsed crest to the
\* candidate crest and both nadirs to nav[i-1]; otherwise the endorsed crest
\* and the candidate nadir stay and the endorsed nadir becomes
\* min(endorsed nadir, nav[i-1]).
C21_ResetRule ==
    [][IsSweepStep =>
        LET i == sweep.i
            prev == sweep.nav[i]
            bar == sweep.nav[i + 1]
            crest == IF FGt(bar, sweep.s.candidate_crest) THEN bar
                     ELSE sweep.s.candidate_crest
            nadir == IF FLt(bar, sweep.s.candidate_nadir) THEN bar
                     ELSE sweep.s.candidate_nadir
            gain == sweep'.s.excess_gains[i + 1]
            loss == sweep'.s.excess_losses[i + 1]
            fired == sweep'.s.resets[i + 1]
        IN  /\ fired <=> (/\ FGt(gain, FAbs(loss))
                          /\ FGt(gain, sweep.hurdle)
                          /\ FGe(crest, sweep.s.endorsing_crest))
            /\ sweep'.s.candidate_crest = crest
            /\ fired => /\ sweep'.s.endorsing_crest = crest
                        /\ sweep'.s.endorsing_nadir = prev
                        /\ sweep'.s.candidate_nadir = prev
            /\ ~fired => /\ sweep'.s.endorsing_crest = sweep.s.endorsing_crest
                         /\ sweep'.s.candidate_nadir = nadir
                         /\ sweep'.s.endorsing_nadir =
                               (IF FLt(prev, sweep.s.endorsing_nadir) THEN prev
                                ELSE sweep.s.endorsing_nadir)
    ]_vars

\* A sweep in which one bar fired a reset and a later bar, with a loss on
\* the books, did not.
C21_Witness ==
    /\ sweep.pc = "done"
    /\ \E k \in 2..Len(sweep.nav) : \E m \in 2..Len(sweep.nav) :
          /\ k < m
          /\ sweep.s.resets[k]
          /\ ~sweep.s.resets[m]
          /\ FGt(sweep.s.excess_losses[m], Zero)

\* C22: at a bar where a reset fires the recorded gain and loss are the
\* running values from before the clear (the gain above hurdle and above the
\* absolute loss), and both accumulators are 0 when the next step begins: a
\* next bar neither above the candidate crest nor below the candidate nadir
\* records gain 0 and loss 0.
C22_RecordThenClear ==
    /\ [](sweep.pc \in {"loop", "done"} =>
            \A k \in 2..Len(sweep.nav) :
                sweep.s.resets[k] =>
                    /\ FGt(sweep.s.excess_gains[k], sweep.hurdle)
                    /\ FGt(sweep.s.excess_gains[k], FAbs(sweep.s.excess_losses[k])))
    /\ [][(IsSweepStep /\ sweep.s.resets[sweep.i]) =>
            /\ sweep.s.excess_gain = Zero
            /\ sweep.s.excess_loss = Zero
            /\ (/\ ~FGt(sweep.nav[sweep.i + 1], sweep.s.candidate_crest)
                /\ ~FLt(sweep.nav[sweep.i + 1], sweep.s.candidate_nadir)) =>
                  /\ sweep'.s.excess_gains[sweep.i + 1] = Zero
                  /\ sweep'.s.excess_losses[sweep.i + 1] = Zero
       ]_vars

\* A bar that fired a reset with a positive gain on record, followed by a
\* bar inside the candidate range that recorded 0 and 0.
C22_Witness ==
    /\ sweep.pc = "done"
    /\ \E k \in 2..(Len(sweep.nav) - 1) :
          /\ sweep.s.resets[k]
          /\ FGt(sweep.s.excess_gains[k], Zero)
          /\ ~FGt(sweep.nav[k + 1], sweep.nav[k])
          /\ sweep.s.excess_gains[k + 1] = Zero
          /\ sweep.s.excess_losses[k + 1] = Zero

\* Every bar of the swept series is finite and not negative.
NonNegativeSeries == \A k \in 1..Len(sweep.nav) : IsFinite(sweep.nav[k]) /\ FGe(sweep.nav[k], Zero)

MaxSkipLen == 3

\* Three values that make a window start invalid in each way line 198 tests
\* (negative, zero, non-finite) and two valid ones.
SkipValues == {Rat(-1, 1), Zero, NaN, PosInf, One, Rat(2, 1)}

SkipSeqs == UNION {[1..k -> SkipValues] : k \in 1..MaxSkipLen}

SkipInit ==
    /\ \E nav \in SkipSeqs : \E lb \in 1..Len(nav) :
          call = [pc |-> "call", fn |-> "compute_rolling_ith", nav |-> nav,
                  lookback |-> lb, features |-> <<>>]
    /\ sweep = Idle
    /\ rolling = Idle
    /\ psquare = Idle
    /\ normalizer = Idle

\* compute_rolling_ith(&nav, lookback) runs to its return.
SkipCall ==
    /\ call.pc = "call"
    /\ call' = [call EXCEPT !.pc = "done",
                            !.features = compute_rolling_ith(call.nav, call.lookback)]
    /\ UNCHANGED <<sweep, rolling, psquare, normalizer>>

SkipNext == SkipCall

SpecSkip == SkipInit /\ [][SkipNext]_vars

\* The window ending at Rust index i of the call starts with an invalid value.
SkippedAt(i) == InvalidFirst(call.nav[i + 2 - call.lookback])

\* C24: a window whose first value is non-positive or non-finite leaves the
\* NaN sentinel in all eight features at its index, and every other index
\* from lookback - 1 on holds exactly what its own window gives, whichever
\* windows before it were skipped.
C24_SkipLeavesOthersIntact ==
    call.pc = "done" =>
        \A i \in (call.lookback - 1)..(Len(call.nav) - 1) :
            IF SkippedAt(i)
            THEN \A f \in FeatureNames : IsNaN(call.features[f][i + 1])
            ELSE \A f \in FeatureNames :
                    call.features[f][i + 1] = WindowFeatures(call.nav, call.lookback, i)[f]

\* A returned call that skipped a window and stored the values of the
\* window after it.
C24_Witness ==
    /\ call.pc = "done"
    /\ call.lookback >= 2
    /\ \E i \in (call.lookback - 1)..(Len(call.nav) - 2) :
          /\ SkippedAt(i)
          /\ \A f \in FeatureNames : IsNaN(call.features[f][i + 1])
          /\ ~SkippedAt(i + 1)
          /\ \A f \in FeatureNames : ~IsNaN(call.features[f][i + 2])

\* C25: after every update that leaves count >= 5 the position of the lowest
\* marker is 1 and the position of the highest marker equals the number of
\* observations fed so far, also when the value was at or above the highest
\* marker.
C25_ExtremePositions ==
    (psquare.last = "update" /\ psquare.est.count >= 5) =>
        /\ At(psquare.est.n, 0) = One
        /\ At(psquare.est.n, 4) = FromInt(psquare.est.count)

\* Every bar of the swept series is finite and strictly positive.
PositiveSeries == \A k \in 1..Len(sweep.nav) : IsFinite(sweep.nav[k]) /\ FGt(sweep.nav[k], Zero)

\* C26: on a series of strictly positive values a bar i >= 1 is flagged as
\* an epoch if and only if the reset condition fired at bar i.
C26_EpochIffReset ==
    (sweep.pc \in {"loop", "done"} /\ PositiveSeries) =>
        \A k \in 2..Len(sweep.nav) : sweep.s.ith_epochs[k] <=> sweep.s.resets[k]

\* A finished sweep of a positive series with a bar that reset and is
\* flagged, and a later bar that holds a gain above its loss, did not reset
\* and is not flagged.
C26_Witness ==
    /\ sweep.pc = "done"
    /\ PositiveSeries
    /\ \E k \in 2..Len(sweep.nav) : \E m \in (k + 1)..Len(sweep.nav) :
          /\ sweep.s.resets[k] /\ sweep.s.ith_epochs[k]
          /\ FGt(sweep.s.excess_gains[m], sweep.s.excess_losses[m])
          /\ ~sweep.s.resets[m] /\ ~sweep.s.ith_epochs[m]

\* The sweep of the first k bars of the series being swept.
OnPrefix(k) == excess_gain_excess_loss(SubSeq(sweep.nav, 1, k), sweep.hurdle)

\* C27: for every k <= len(nav) the first k entries of excess_gains,
\* excess_losses and the epoch flags of the whole series equal the entries
\* computed on the prefix nav[0..k).
C27_NoLookAhead ==
    sweep.pc = "done" =>
        \A k \in 0..Len(sweep.nav) :
            /\ SubSeq(sweep.result.excess_gains, 1, k) = OnPrefix(k).excess_gains
            /\ SubSeq(sweep.result.excess_losses, 1, k) = OnPrefix(k).excess_losses
            /\ SubSeq(sweep.result.ith_epochs, 1, k) = OnPrefix(k).ith_epochs

\* A finished sweep whose last bar reset and is flagged, after a bar with a
\* loss, so that the whole series and its prefixes differ in their counts.
C27_Witness ==
    /\ sweep.pc = "done"
    /\ Len(sweep.nav) >= 4
    /\ sweep.result.ith_epochs[Len(sweep.nav)]
    /\ \E k \in 2..(Len(sweep.nav) - 1) :
          /\ FGt(sweep.result.excess_losses[k], Zero)
          /\ OnPrefix(k).num_of_ith_epochs < sweep.result.num_of_ith_epochs
          /\ OnPrefix(k).excess_losses[k] = sweep.result.excess_losses[k]

\* x is an integer value.
IsInteger(x) == IsFinite(x) /\ x[1] % x[2] = 0

\* The step is an update that leaves count >= 5.
IsCountedUpdate ==
    /\ psquare'.last = "update"
    /\ psquare'.est.count = psquare.est.count + 1
    /\ psquare'.est.count >= 5

\* C28: after every update that leaves count >= 5 the five marker positions
\* are integers and strictly increasing, and the adjustment step of an update
\* in steady state moves an interior position by exactly +1 or -1 or not at
\* all, and only when the neighbouring position in that direction is more
\* than 1 away.
C28_PositionsIncrease ==
    [][IsCountedUpdate =>
        /\ \A k \in 0..4 : IsInteger(At(psquare'.est.n, k))
        /\ \A k \in 0..3 : FLt(At(psquare'.est.n, k), At(psquare'.est.n, k + 1))
        /\ psquare'.est.count > 5 =>
              \A before \in {IncrementPositions(psquare.est.n,
                                FindCell(psquare.est.q, psquare'.fed[Len(psquare'.fed)])[1])} :
                  /\ At(psquare'.est.n, 0) = At(before, 0)
                  /\ At(psquare'.est.n, 4) = At(before, 4)
                  /\ \A i \in 1..3 :
                        \A step \in {FSub(At(psquare'.est.n, i), At(before, i))} :
                            /\ step \in {Zero, One, FNeg(One)}
                            /\ step = One =>
                                  FGt(FSub(At(before, i + 1), At(before, i)), One)
                            /\ step = FNeg(One) =>
                                  FLt(FSub(At(psquare'.est.n, i - 1), At(before, i)), FNeg(One))
    ]_vars

\* The sixth update moved an interior position in its adjustment step and
\* left two neighbouring positions exactly 1 apart.
C28_Witness ==
    /\ psquare.last = "update"
    /\ psquare.est.count = 6
    /\ \E k \in 0..3 : FSub(At(psquare.est.n, k + 1), At(psquare.est.n, k)) = One
    /\ \E k \in 1..3 :
          At(psquare.est.n, k) #
              At(IncrementPositions(NewEstimator(psquare.est.p).n,
                    FindCell(SortF64(SubSeq(psquare.fed, 1, 5)), psquare.fed[6])[1]), k)

\* ------------------------------------------------------------------------
\* The sweep under rounding.  Each f64 operation returns the representable
\* value nearest to the exact result (ties to even).  f64 carries 53
\* significant bits; the model's integers are 32 bits wide, so the rounded
\* sweep carries MANTISSA_DIGITS bits and an unbounded exponent.
\* ------------------------------------------------------------------------

MANTISSA_DIGITS == 4

RECURSIVE Pow2(_)
Pow2(k) == IF k = 0 THEN 1 ELSE 2 * Pow2(k - 1)

\* n / d (both positive) rounded to the nearest integer, ties to even.
RoundHalfEven(n, d) ==
    LET q == n \div d
        r == n % d
    IN  IF 2 * r < d THEN q
        ELSE IF 2 * r > d THEN q + 1
        ELSE IF q % 2 = 0 THEN q ELSE q + 1

\* a / d (both positive) rounded to MANTISSA_DIGITS significant bits.
RECURSIVE RoundPositive(_, _)
RoundPositive(a, d) ==
    IF a < Pow2(MANTISSA_DIGITS - 1) * d THEN FMul(RoundPositive(2 * a, d), Half)
    ELSE IF a >= Pow2(MANTISSA_DIGITS) * d THEN FMul(RoundPositive(a, 2 * d), Two)
    ELSE <<RoundHalfEven(a, d), 1>>

\* The representable value nearest to x.
Fl(x) ==
    IF ~IsFinite(x) \/ x[1] = 0 THEN x
    ELSE FMul(<<Sign(x[1]), 1>>, RoundPositive(Abs(x[1]), x[2]))

\* RoundedExcessGain as a difference to the endorsed crest instead of a ratio.
RoundedExcessGainAbsolute(next_equity, endorsing_crest) ==
    IF endorsing_crest # Zero
    THEN Fl(FSub(next_equity, endorsing_crest))
    ELSE Zero

\* next_equity / endorsing_crest - 1.0 in f64 (lines 35-39).
RoundedExcessGain(next_equity, endorsing_crest) ==
    IF endorsing_crest # Zero
    THEN Fl(FSub(Fl(FDiv(next_equity, endorsing_crest)), One))
    ELSE Zero

\* 1.0 - next_equity / endorsing_crest in f64 (line 45).
RoundedExcessLoss(next_equity, endorsing_crest) ==
    Fl(FSub(One, Fl(FDiv(next_equity, endorsing_crest))))

\* One iteration of the loop in f64 (lines 31-69).
RoundedSweepStep(s, nav, hurdle, i) ==
    LET equity == nav[i]
        next_equity == nav[i + 1]
        up == FGt(next_equity, s.candidate_crest)
        gain1 == IF up
                 THEN RoundedExcessGain(next_equity, s.endorsing_crest)
                 ELSE s.excess_gain
        crest1 == IF up THEN next_equity ELSE s.candidate_crest
        down == FLt(next_equity, s.candidate_nadir)
        loss1 == IF down
                 THEN RoundedExcessLoss(next_equity, s.endorsing_crest)
                 ELSE s.excess_loss
        nadir1 == IF down THEN next_equity ELSE s.candidate_nadir
        reset_condition ==
            ResetCondition(gain1, loss1, hurdle, crest1, s.endorsing_crest)
    IN  [excess_gains    |-> [s.excess_gains EXCEPT ![i + 1] = gain1],
         excess_losses   |-> [s.excess_losses EXCEPT ![i + 1] = loss1],
         ith_epochs      |-> [s.ith_epochs EXCEPT
                                 ![i + 1] = IthEpochCondition(gain1, loss1, hurdle)],
         resets          |-> [s.resets EXCEPT ![i + 1] = reset_condition],
         excess_gain     |-> ClearedOnReset(reset_condition, gain1),
         excess_loss     |-> ClearedOnReset(reset_condition, loss1),
         endorsing_crest |-> IF reset_condition THEN crest1 ELSE s.endorsing_crest,
         endorsing_nadir |-> IF reset_condition THEN equity
                             ELSE FMin(s.endorsing_nadir, equity),
         candidate_crest |-> crest1,
         candidate_nadir |-> IF reset_condition THEN equity ELSE nadir1]

RECURSIVE RoundedSweepLoop(_, _, _, _)
RoundedSweepLoop(s, nav, hurdle, i) ==
    IF i >= Len(nav) THEN s
    ELSE RoundedSweepLoop(RoundedSweepStep(s, nav, hurdle, i), nav, hurdle, i + 1)

\* excess_gain_excess_loss in f64.
RoundedSweep(nav, hurdle) ==
    IF Len(nav) = 0 THEN EmptyResult
    ELSE SweepResult(RoundedSweepLoop(SweepStart(nav), nav, hurdle, 1))

\* The series multiplied elementwise by c in f64.
Scaled(nav, c) == [k \in 1..Len(nav) |-> Fl(FMul(c, nav[k]))]

\* ------------------------------------------------------------------------
\* Specification of the sweep of a series and of the same series multiplied
\* by a constant
\* ------------------------------------------------------------------------

\* Longest series swept at two scales.
MaxScaleLen == 4

\* Strictly positive representable values.
ScaleValues == {Rat(3, 4), One, Rat(5, 4), Rat(3, 2), Rat(7, 4)}

ScaleSeqs == UNION {[1..k -> ScaleValues] : k \in 1..MaxScaleLen}

\* Two powers of two and a constant that is none.
ScaleFactors == {Half, Two, Rat(3, 1)}

ScaleHurdles == {Zero, Rat(1, 4)}

ScaleInit ==
    /\ \E nav \in ScaleSeqs : \E c \in ScaleFactors : \E h \in ScaleHurdles :
          call = [pc |-> "call", fn |-> "excess_gain_excess_loss", values |-> nav,
                  c |-> c, hurdle |-> h, result |-> <<>>, result_scaled |-> <<>>]
    /\ sweep = Idle
    /\ rolling = Idle
    /\ psquare = Idle
    /\ normalizer = Idle

\* excess_gain_excess_loss(&nav, hurdle) runs to its return.
ScaleOriginal ==
    /\ call.pc = "call"
    /\ call' = [call EXCEPT !.pc = "original_done",
                            !.result = RoundedSweep(call.values, call.hurdle)]
    /\ UNCHANGED <<sweep, rolling, psquare, normalizer>>

\* excess_gain_excess_loss on the series multiplied by c runs to its return.
ScaleScaled ==
    /\ call.pc = "original_done"
    /\ call' = [call EXCEPT !.pc = "done",
                            !.result_scaled =
                                RoundedSweep(Scaled(call.values, call.c), call.hurdle)]
    /\ UNCHANGED <<sweep, rolling, psquare, normalizer>>

ScaleNext == ScaleOriginal \/ ScaleScaled

SpecScale == ScaleInit /\ [][ScaleNext]_vars

\* c is 2^k for an integer k.
IsPowerOfTwo(c) ==
    /\ IsFinite(c)
    /\ c[1] > 0
    /\ \E k \in 0..30 : c = <<Pow2(k), 1>> \/ c = <<1, Pow2(k)>>

C30_EstimatesOrdered ==
    normalizer.calls >= 1 =>
        /\ FLe(Quantile(normalizer.obj.q1), Quantile(normalizer.obj.median))
        /\ FLe(Quantile(normalizer.obj.median), Quantile(normalizer.obj.q3))
        /\ FGe(NormalizerIqrValue(normalizer.obj), Zero)

====
